---- MODULE Spec2Model ----
(***************************************************************************)
(* Model of NetworkAnalyzerPro (src/network_analyzer.py): the concurrent   *)
(* port scanner, the speed-test orchestration, the route-table parsers and *)
(* the public-IP lookup.  Text is modelled as a sequence of one-character  *)
(* strings so that split, strip, startswith, int() and string              *)
(* concatenation are computed rather than assumed.                         *)
(***************************************************************************)
EXTENDS Integers, Sequences, FiniteSets, TLC

VARIABLES
    \* ---- port_scan (lines 287-315)
    scan_pc,             \* position of the caller: idle / launch / join / returned
    ports,               \* the `ports` argument, a text
    start_port,          \* start_port, end_port after a successful parse
    end_port,
    next_port,           \* loop variable of the launching for-loop (line 305)
    threads,             \* the list `threads` (ports, in launch order)
    join_idx,            \* number of threads already joined (line 310)
    tstate,              \* per launched scan_port thread: its position
    tresult,             \* per scan_port thread: what connect_ex did
    open_ports,          \* the shared list open_ports
    scan_ret,            \* the value port_scan returned
    \* ---- run_speed_test (lines 259-285)
    st_pc,               \* position of the caller
    dl_thr,              \* download_thread: idle / running / finished
    ul_thr,              \* upload_thread
    st_results,          \* st.results of the speedtest object
    st_raised,           \* which of negotiation/download/upload raised
    st_escaped,          \* TRUE iff an exception left run_speed_test
    speed_test_results,  \* self.speed_test_results
    \* ---- _parse_windows_route / _parse_unix_route (lines 126-170)
    parse_style,         \* 0 = no call yet, 1 = windows layout, 2 = unix layout
    parse_in,            \* the `output` argument, a text
    parse_out,           \* the returned list of routes
    parse_raised,        \* TRUE iff the parser raised
    \* ---- _get_external_ip (lines 212-220)
    ip_pc,               \* idle / ep2 / done
    ip_log,              \* per call: the endpoints contacted and what they did
    ip_escaped,          \* TRUE iff an exception left _get_external_ip
    external_ip,         \* self.external_ip
    \* ---- collect_all_info (lines 65-88)
    ca_pc,               \* idle / loop / done
    ca_idx,              \* position of the for-loop in the list `tasks`
    ca_calls,            \* the items invoked, in order, and whether each raised
    ca_log,              \* the lines printed per item: name and mark
    ca_escaped           \* TRUE iff an exception left collect_all_info

scanVars  == <<scan_pc, ports, start_port, end_port, next_port, threads,
               join_idx, tstate, tresult, open_ports, scan_ret>>
speedVars == <<st_pc, dl_thr, ul_thr, st_results, st_raised, st_escaped,
               speed_test_results>>
parseVars == <<parse_style, parse_in, parse_out, parse_raised>>
ipVars    == <<ip_pc, ip_log, ip_escaped, external_ip>>
collectVars == <<ca_pc, ca_idx, ca_calls, ca_log, ca_escaped>>
vars      == <<scanVars, speedVars, parseVars, ipVars, collectVars>>

----------------------------------------------------------------------------
(* Bounds of the model. *)

\* largest port number the scanned ranges mention
MaxPort == 3
\* largest number of lines in a routing-table text
MaxLines == 2

----------------------------------------------------------------------------
(* Text helpers: Python's str operations on sequences of characters. *)

None == "None"

\* characters str.strip() and the regex class \s treat as whitespace
Whitespace == {" ", "\t", "\r", "\n", "\f"}

DigitChars == <<"0", "1", "2", "3", "4", "5", "6", "7", "8", "9">>

IsDigit(c) == \E i \in 1..10 : DigitChars[i] = c

DigitVal(c) == (CHOOSE i \in 1..10 : DigitChars[i] = c) - 1

\* s.startswith(prefix)
StartsWith(s, prefix) ==
    /\ Len(s) >= Len(prefix)
    /\ SubSeq(s, 1, Len(prefix)) = prefix

\* the k-th smallest element of a set of integers
Nth(S, k) == CHOOSE i \in S : Cardinality({ j \in S : j < i }) = k - 1

\* s.strip()
Strip(s) ==
    LET solid == { i \in 1..Len(s) : s[i] \notin Whitespace } IN
    IF solid = {} THEN <<>>
    ELSE SubSeq(s, Nth(solid, 1), Nth(solid, Cardinality(solid)))

\* s.split(sep) for a one-character separator: every occurrence splits,
\* empty pieces are kept
Split(s, sep) ==
    LET at    == { i \in 1..Len(s) : s[i] = sep }
        n     == Cardinality(at)
        lo(k) == IF k = 1 THEN 1 ELSE Nth(at, k - 1) + 1
        hi(k) == IF k = n + 1 THEN Len(s) ELSE Nth(at, k) - 1
    IN  [k \in 1..(n + 1) |-> SubSeq(s, lo(k), hi(k))]

\* re.split(r'\s+', s): a run of whitespace is one separator; a separator
\* at either end of s yields an empty piece there
ReSplit(s) ==
    LET isWs(i) == s[i] \in Whitespace
        begins  == { i \in 1..Len(s) : ~isWs(i) /\ (i = 1 \/ isWs(i - 1)) }
        ends    == { i \in 1..Len(s) : ~isWs(i) /\ (i = Len(s) \/ isWs(i + 1)) }
        words   == [k \in 1..Cardinality(begins) |->
                       SubSeq(s, Nth(begins, k), Nth(ends, k))]
        lead    == IF s = <<>> \/ isWs(1) THEN << <<>> >> ELSE <<>>
        trail   == IF s # <<>> /\ isWs(Len(s)) THEN << <<>> >> ELSE <<>>
    IN  lead \o words \o trail

\* str(n) for n >= 0
RECURSIVE IntToText(_)
IntToText(n) ==
    IF n < 10 THEN <<DigitChars[n + 1]>>
    ELSE IntToText(n \div 10) \o <<DigitChars[(n % 10) + 1]>>

\* value of a non-empty run of decimal digits
RECURSIVE DigitsVal(_, _)
DigitsVal(s, acc) ==
    IF s = <<>> THEN acc ELSE DigitsVal(Tail(s), 10 * acc + DigitVal(Head(s)))

AllDigits(s) == s # <<>> /\ \A i \in 1..Len(s) : IsDigit(s[i])

\* body of an int() literal once surrounding whitespace is dropped:
\* an optional '+' sign, then digits
IntBody(tok) ==
    LET t == Strip(tok) IN
    IF t # <<>> /\ Head(t) = "+" THEN Tail(t) ELSE t
----------------------------------------------------------------------------
(* port_scan: inputs. *)

ScanErrorPrefix ==
    <<"S", "c", "a", "n", " ", "e", "r", "r", "o", "r", ":", " ">>

InvalidLiteralPrefix ==
    <<"i", "n", "v", "a", "l", "i", "d", " ", "l", "i", "t", "e", "r", "a",
      "l", " ", "f", "o", "r", " ", "i", "n", "t", "(", ")", " ", "w", "i",
      "t", "h", " ", "b", "a", "s", "e", " ", "1", "0", ":", " ">>

NotEnoughValues ==
    <<"n", "o", "t", " ", "e", "n", "o", "u", "g", "h", " ", "v", "a", "l",
      "u", "e", "s", " ", "t", "o", " ", "u", "n", "p", "a", "c", "k", " ",
      "(", "e", "x", "p", "e", "c", "t", "e", "d", " ", "2", ",", " ", "g",
      "o", "t", " ", "1", ")">>

TooManyValues ==
    <<"t", "o", "o", " ", "m", "a", "n", "y", " ", "v", "a", "l", "u", "e",
      "s", " ", "t", "o", " ", "u", "n", "p", "a", "c", "k", " ", "(", "e",
      "x", "p", "e", "c", "t", "e", "d", " ", "2", ")">>

\* 'start-end' for every start, end in 1..MaxPort (a reversed pair is an
\* empty range), and one range written with the blanks and the sign int()
\* accepts
WellFormedArgs ==
    { IntToText(s) \o <<"-">> \o IntToText(e) : s \in 1..MaxPort, e \in 1..MaxPort }
    \cup { <<" ", "1", "-", "+", "2">> }

\* range strings that are not two integers: 'abc-10', '10', '1-2-3', '',
\* '1-', '-3', '1-x', '1-2-x'
MalformedArgs ==
    { <<"a", "b", "c", "-", "1", "0">>,
      <<"1", "0">>,
      <<"1", "-", "2", "-", "3">>,
      <<>>,
      <<"1", "-">>,
      <<"-", "3">>,
      <<"1", "-", "x">>,
      <<"1", "-", "2", "-", "x">> }

PortsArgs == WellFormedArgs \cup MalformedArgs

\* what one connect attempt can do: connect_ex returns 0 (connected) or an
\* errno (111 refused, 11 timed out), or the attempt raises (resolution
\* error) and `result` is never bound
ConnectOutcomes ==
    { [raised |-> FALSE, code |-> c] : c \in {0, 111, 11} }
    \cup { [raised |-> TRUE, code |-> -1] }

\* port_scan has not returned
NoReturn == [type |-> "none", val |-> <<>>]

EmptyMap == [x \in {} |-> None]

----------------------------------------------------------------------------
(* port_scan: the parse of the range (line 291). *)

\* int(tok) succeeds
IntParsable(tok) == AllDigits(IntBody(tok))

\* int(tok)
IntOf(tok) == DigitsVal(IntBody(tok), 0)

\* repr(tok) of a text without quotes or escapes
Repr(tok) == <<"'">> \o tok \o <<"'">>

\* faulty variant of TooMany: a third piece is silently ignored
TooManyIgnored(n) == FALSE

\* the unpacking `start_port, end_port = ...` rejects a third item
TooMany(n) == n > 2

\* start_port, end_port = map(int, ports.split('-')).  map is lazy and the
\* unpacking draws up to three items from it, so int() runs on the first
\* three pieces at most, in order, before the count is judged.
ParseRange(p) ==
    LET parts == Split(p, "-")
        n     == Len(parts)
        seen  == IF n < 3 THEN n ELSE 3
        bad   == { i \in 1..seen : ~IntParsable(parts[i]) }
        first == CHOOSE i \in bad : \A j \in bad : i <= j
    IN  IF bad # {}
        THEN [ok |-> FALSE, msg |-> InvalidLiteralPrefix \o Repr(parts[first])]
        ELSE IF n < 2
        THEN [ok |-> FALSE, msg |-> NotEnoughValues]
        ELSE IF TooMany(n)
        THEN [ok |-> FALSE, msg |-> TooManyValues]
        ELSE [ok |-> TRUE, start |-> IntOf(parts[1]), stop |-> IntOf(parts[2])]

----------------------------------------------------------------------------
(* port_scan: the caller and the scan_port threads. *)

\* faulty variant of ListAppend: a writer replaces the list it read
AppendOverwrites(lst, port) == <<port>>

\* open_ports.append(port): one atomic list operation
ListAppend(lst, port) == Append(lst, port)

\* `if result == 0` (line 299)
IsOpen(r) == ~r.raised /\ r.code = 0

\* faulty variant of Joined: the caller does not wait for the thread
JoinSkipsRunning(p) == TRUE

\* t.join() returns once thread t has terminated
Joined(p) == tstate[p] = "done"

\* port_scan(target, ports): lines 290-292, or 314-315 when the parse raises
ScanCall(p) ==
    /\ scan_pc \in {"idle", "returned"}
    /\ ports' = p
    /\ LET r == ParseRange(p) IN
       IF r.ok
       THEN /\ start_port' = r.start
            /\ end_port' = r.stop
            /\ next_port' = r.start
            /\ scan_pc' = "launch"
            /\ scan_ret' = NoReturn
       ELSE /\ start_port' = None
            /\ end_port' = None
            /\ next_port' = None
            /\ scan_pc' = "returned"
            /\ scan_ret' = [type |-> "str", val |-> ScanErrorPrefix \o r.msg]
    /\ open_ports' = <<>>
    /\ threads' = <<>>
    /\ join_idx' = 0
    /\ tstate' = EmptyMap
    /\ tresult' = EmptyMap
    /\ UNCHANGED <<speedVars, parseVars, ipVars, collectVars>>

\* one iteration of the for-loop of lines 305-308
LaunchThread ==
    /\ scan_pc = "launch"
    /\ next_port <= end_port
    /\ threads' = Append(threads, next_port)
    /\ tstate' = (next_port :> "connect") @@ tstate
    /\ next_port' = next_port + 1
    /\ UNCHANGED <<scan_pc, ports, start_port, end_port, join_idx, tresult,
                   open_ports, scan_ret>>
    /\ UNCHANGED <<speedVars, parseVars, ipVars, collectVars>>

\* range(start_port, end_port + 1) is exhausted: on to the joins
LaunchDone ==
    /\ scan_pc = "launch"
    /\ next_port > end_port
    /\ scan_pc' = "join"
    /\ UNCHANGED <<ports, start_port, end_port, next_port, threads, join_idx,
                   tstate, tresult, open_ports, scan_ret>>
    /\ UNCHANGED <<speedVars, parseVars, ipVars, collectVars>>

\* scan_port, lines 296-299 and 301-302: the connect attempt of thread p
Connect(p) ==
    /\ p \in DOMAIN tstate
    /\ tstate[p] = "connect"
    /\ \E r \in ConnectOutcomes :
          /\ tresult' = (p :> r) @@ tresult
          /\ tstate' = [tstate EXCEPT ![p] = IF IsOpen(r) THEN "append" ELSE "done"]
    /\ UNCHANGED <<scan_pc, ports, start_port, end_port, next_port, threads,
                   join_idx, open_ports, scan_ret>>
    /\ UNCHANGED <<speedVars, parseVars, ipVars, collectVars>>

\* scan_port, line 300
AppendPort(p) ==
    /\ p \in DOMAIN tstate
    /\ tstate[p] = "append"
    /\ open_ports' = ListAppend(open_ports, p)
    /\ tstate' = [tstate EXCEPT ![p] = "done"]
    /\ UNCHANGED <<scan_pc, ports, start_port, end_port, next_port, threads,
                   join_idx, tresult, scan_ret>>
    /\ UNCHANGED <<speedVars, parseVars, ipVars, collectVars>>

\* one iteration of the for-loop of lines 310-311
JoinThread ==
    /\ scan_pc = "join"
    /\ join_idx < Len(threads)
    /\ Joined(threads[join_idx + 1])
    /\ join_idx' = join_idx + 1
    /\ UNCHANGED <<scan_pc, ports, start_port, end_port, next_port, threads,
                   tstate, tresult, open_ports, scan_ret>>
    /\ UNCHANGED <<speedVars, parseVars, ipVars, collectVars>>

\* line 313
ScanReturn ==
    /\ scan_pc = "join"
    /\ join_idx = Len(threads)
    /\ scan_pc' = "returned"
    /\ scan_ret' = [type |-> "list", val |-> open_ports]
    /\ UNCHANGED <<ports, start_port, end_port, next_port, threads, join_idx,
                   tstate, tresult, open_ports>>
    /\ UNCHANGED <<speedVars, parseVars, ipVars, collectVars>>
----------------------------------------------------------------------------
(* run_speed_test: inputs and formatting. *)

MbpsSuffix ==
    <<" ", "M", "b", "p", "s">>

MsSuffix ==
    <<" ", "m", "s">>

BestServerFailure ==
    <<"U", "n", "a", "b", "l", "e", " ", "t", "o", " ", "c", "o", "n", "n",
      "e", "c", "t", " ", "t", "o", " ", "s", "e", "r", "v", "e", "r", "s",
      " ", "t", "o", " ", "t", "e", "s", "t", " ", "l", "a", "t", "e", "n",
      "c", "y", ".">>

ConfigRetrievalError ==
    <<"H", "T", "T", "P", " ", "E", "r", "r", "o", "r", " ", "4", "0", "3",
      ":", " ", "F", "o", "r", "b", "i", "d", "d", "e", "n">>

\* errors Speedtest() and get_best_server() raise: subclasses of Exception,
\* each with the text str(e) gives
SpeedErrors ==
    { [kind |-> "Exception", msg |-> BestServerFailure],
      [kind |-> "Exception", msg |-> ConfigRetrievalError] }

\* rates a measurement reports, in bits per second
Rates == {25000000, 94336000}

\* latencies of the negotiated server, in microseconds (12.345 ms, 8 ms)
Pings == {12345, 8000}

\* display names of the negotiated server
ServerNames == { <<"P", "a", "r", "i", "s">>, <<"O", "s", "l", "o">> }

\* st.results of a fresh Speedtest object: no rate measured, no server
FreshResults == [download |-> 0, upload |-> 0, ping |-> 0, server |-> <<>>]

\* '%.2f' of h hundredths
Fixed2(h) ==
    IntToText(h \div 100) \o <<".">>
        \o <<DigitChars[((h \div 10) % 10) + 1], DigitChars[(h % 10) + 1]>>

\* f"{bps / 1_000_000:.2f} Mbps"
FormatMbps(bps) == Fixed2((bps + 5000) \div 10000) \o MbpsSuffix

\* f"{ms:.2f} ms", the latency held in microseconds
FormatMs(us) == Fixed2((us + 5) \div 10) \o MsSuffix

\* the dictionary of lines 278-283
SuccessReport(r) ==
    [k \in {"Download", "Upload", "Ping", "Server"} |->
        CASE k = "Download" -> FormatMbps(r.download)
          [] k = "Upload"   -> FormatMbps(r.upload)
          [] k = "Ping"     -> FormatMs(r.ping)
          [] k = "Server"   -> r.server]

\* faulty variant of FailureReport: the error is dropped
FailureReportEmpty(e) == EmptyMap

\* the dictionary of line 285
FailureReport(e) == [k \in {"Error"} |-> e.msg]

\* `except Exception as e` (line 284)
CaughtByHandler(e) == e.kind = "Exception"

----------------------------------------------------------------------------
(* run_speed_test: the caller and its two threads. *)

\* lines 262-264: st = speedtest.Speedtest(); st.get_best_server()
SpeedNegotiateOk ==
    /\ st_pc \in {"idle", "done"}
    /\ \E p \in Pings, s \in ServerNames :
          st_results' = [FreshResults EXCEPT !.ping = p, !.server = s]
    /\ st_pc' = "start_dl"
    /\ st_raised' = {}
    /\ dl_thr' = "idle"
    /\ ul_thr' = "idle"
    /\ UNCHANGED <<st_escaped, speed_test_results>>
    /\ UNCHANGED <<scanVars, parseVars, ipVars, collectVars>>

\* lines 262-264 raising, handled at 284-285
SpeedNegotiateRaises ==
    /\ st_pc \in {"idle", "done"}
    /\ \E e \in SpeedErrors :
          IF CaughtByHandler(e)
          THEN /\ speed_test_results' = FailureReport(e)
               /\ st_escaped' = FALSE
          ELSE /\ speed_test_results' = speed_test_results
               /\ st_escaped' = TRUE
    /\ st_results' = FreshResults
    /\ st_pc' = "done"
    /\ st_raised' = {"negotiation"}
    /\ dl_thr' = "idle"
    /\ ul_thr' = "idle"
    /\ UNCHANGED <<scanVars, parseVars, ipVars, collectVars>>

\* line 269: download_thread.start()
StartDownload ==
    /\ st_pc = "start_dl"
    /\ dl_thr' = "running"
    /\ st_pc' = "start_ul"
    /\ UNCHANGED <<ul_thr, st_results, st_raised, st_escaped, speed_test_results>>
    /\ UNCHANGED <<scanVars, parseVars, ipVars, collectVars>>

\* line 270: upload_thread.start()
StartUpload ==
    /\ st_pc = "start_ul"
    /\ ul_thr' = "running"
    /\ st_pc' = "join_dl"
    /\ UNCHANGED <<dl_thr, st_results, st_raised, st_escaped, speed_test_results>>
    /\ UNCHANGED <<scanVars, parseVars, ipVars, collectVars>>

\* the download thread (target=st.download) measures and stores the rate
DownloadOk ==
    /\ dl_thr = "running"
    /\ \E d \in Rates : st_results' = [st_results EXCEPT !.download = d]
    /\ dl_thr' = "finished"
    /\ UNCHANGED <<st_pc, ul_thr, st_raised, st_escaped, speed_test_results>>
    /\ UNCHANGED <<scanVars, parseVars, ipVars, collectVars>>

\* st.download raises inside the download thread: the thread ends, the
\* exception stays in it, st.results.download keeps its value
DownloadRaises ==
    /\ dl_thr = "running"
    /\ dl_thr' = "finished"
    /\ st_raised' = st_raised \cup {"download"}
    /\ UNCHANGED <<st_pc, ul_thr, st_results, st_escaped, speed_test_results>>
    /\ UNCHANGED <<scanVars, parseVars, ipVars, collectVars>>

\* the upload thread (target=st.upload)
UploadOk ==
    /\ ul_thr = "running"
    /\ \E u \in Rates : st_results' = [st_results EXCEPT !.upload = u]
    /\ ul_thr' = "finished"
    /\ UNCHANGED <<st_pc, dl_thr, st_raised, st_escaped, speed_test_results>>
    /\ UNCHANGED <<scanVars, parseVars, ipVars, collectVars>>

\* st.upload raises inside the upload thread
UploadRaises ==
    /\ ul_thr = "running"
    /\ ul_thr' = "finished"
    /\ st_raised' = st_raised \cup {"upload"}
    /\ UNCHANGED <<st_pc, dl_thr, st_results, st_escaped, speed_test_results>>
    /\ UNCHANGED <<scanVars, parseVars, ipVars, collectVars>>

\* line 273: download_thread.join()
JoinDownload ==
    /\ st_pc = "join_dl"
    /\ dl_thr = "finished"
    /\ st_pc' = "join_ul"
    /\ UNCHANGED <<dl_thr, ul_thr, st_results, st_raised, st_escaped,
                   speed_test_results>>
    /\ UNCHANGED <<scanVars, parseVars, ipVars, collectVars>>

\* line 276: upload_thread.join()
JoinUpload ==
    /\ st_pc = "join_ul"
    /\ ul_thr = "finished"
    /\ st_pc' = "store"
    /\ UNCHANGED <<dl_thr, ul_thr, st_results, st_raised, st_escaped,
                   speed_test_results>>
    /\ UNCHANGED <<scanVars, parseVars, ipVars, collectVars>>

\* lines 278-283
StoreResults ==
    /\ st_pc = "store"
    /\ speed_test_results' = SuccessReport(st_results)
    /\ st_pc' = "done"
    /\ UNCHANGED <<dl_thr, ul_thr, st_results, st_raised, st_escaped>>
    /\ UNCHANGED <<scanVars, parseVars, ipVars, collectVars>>
----------------------------------------------------------------------------
(* Route-table parsers: inputs. *)

\* 'default         192.168.1.1     0.0.0.0         UG        0 0          0 eth0'
LinuxDefaultLine ==
    <<"d", "e", "f", "a", "u", "l", "t", " ", " ", " ", " ", " ", " ", " ",
      " ", " ", "1", "9", "2", ".", "1", "6", "8", ".", "1", ".", "1", " ",
      " ", " ", " ", " ", "0", ".", "0", ".", "0", ".", "0", " ", " ", " ",
      " ", " ", " ", " ", " ", " ", "U", "G", " ", " ", " ", " ", " ", " ",
      " ", " ", "0", " ", "0", " ", " ", " ", " ", " ", " ", " ", " ", " ",
      " ", "0", " ", "e", "t", "h", "0">>

\* '          0.0.0.0          0.0.0.0      192.168.1.1    192.168.1.100     25' and a carriage return
WindowsDefaultLine ==
    <<" ", " ", " ", " ", " ", " ", " ", " ", " ", " ", "0", ".", "0", ".",
      "0", ".", "0", " ", " ", " ", " ", " ", " ", " ", " ", " ", " ", "0",
      ".", "0", ".", "0", ".", "0", " ", " ", " ", " ", " ", " ", "1", "9",
      "2", ".", "1", "6", "8", ".", "1", ".", "1", " ", " ", " ", " ", "1",
      "9", "2", ".", "1", "6", "8", ".", "1", ".", "1", "0", "0", " ", " ",
      " ", " ", " ", "2", "5", "\r">>

\* '0.0.0.0 0.0.0.0 On-link 10.0.0.5 281 x': six fields
WindowsOnLinkLine ==
    <<"0", ".", "0", ".", "0", ".", "0", " ", "0", ".", "0", ".", "0", ".",
      "0", " ", "O", "n", "-", "l", "i", "n", "k", " ", "1", "0", ".", "0",
      ".", "0", ".", "5", " ", "2", "8", "1", " ", "x">>

\* '0.0.0.0 10.0.0.1 0.0.0.0 UG': four fields
ZeroFourLine ==
    <<"0", ".", "0", ".", "0", ".", "0", " ", "1", "0", ".", "0", ".", "0",
      ".", "1", " ", "0", ".", "0", ".", "0", ".", "0", " ", "U", "G">>

\* '0.0.0.0 0.0.0.0 10.0.0.1': three fields
ZeroThreeLine ==
    <<"0", ".", "0", ".", "0", ".", "0", " ", "0", ".", "0", ".", "0", ".",
      "0", " ", "1", "0", ".", "0", ".", "0", ".", "1">>

\* 'default 10.0.0.1 UGSc': three fields
DefaultThreeLine ==
    <<"d", "e", "f", "a", "u", "l", "t", " ", "1", "0", ".", "0", ".", "0",
      ".", "1", " ", "U", "G", "S", "c">>

\* '  default 10.0.0.1 UGSc en0  ': four fields, blanks around
DefaultFourLine ==
    <<" ", " ", "d", "e", "f", "a", "u", "l", "t", " ", "1", "0", ".", "0",
      ".", "0", ".", "1", " ", "U", "G", "S", "c", " ", "e", "n", "0", " ",
      " ">>

\* 'default 10.0.0.1 UGSc 5 0 en0': six fields
DarwinDefaultLine ==
    <<"d", "e", "f", "a", "u", "l", "t", " ", "1", "0", ".", "0", ".", "0",
      ".", "1", " ", "U", "G", "S", "c", " ", "5", " ", "0", " ", "e", "n",
      "0">>

\* '192.168.1.0 0.0.0.0 255.255.255.0 U 0 0 0 eth0', tab separated
NetTabLine ==
    <<"1", "9", "2", ".", "1", "6", "8", ".", "1", ".", "0", "\t", "0",
      ".", "0", ".", "0", ".", "0", "\t", "2", "5", "5", ".", "2", "5",
      "5", ".", "2", "5", "5", ".", "0", "\t", "U", "\t", "0", "\t", "0",
      "\t", "0", "\t", "e", "t", "h", "0">>

\* '10.0.0.0 10.0.0.1 255.0.0.0 UG': four fields
NetFourLine ==
    <<"1", "0", ".", "0", ".", "0", ".", "0", " ", "1", "0", ".", "0", ".",
      "0", ".", "1", " ", "2", "5", "5", ".", "0", ".", "0", ".", "0", " ",
      "U", "G">>

\* '127.0.0.1 127.0.0.1 UH 0 lo0': five fields
LoopbackLine ==
    <<"1", "2", "7", ".", "0", ".", "0", ".", "1", " ", "1", "2", "7", ".",
      "0", ".", "0", ".", "1", " ", "U", "H", " ", "0", " ", "l", "o", "0">>

\* '1.2.3 a b c d e': no dotted-decimal address
ThreeGroupLine ==
    <<"1", ".", "2", ".", "3", " ", "a", " ", "b", " ", "c", " ", "d", " ",
      "e">>

\* 'Destination Gateway Genmask Flags MSS Window irtt Iface'
HeaderLine ==
    <<"D", "e", "s", "t", "i", "n", "a", "t", "i", "o", "n", " ", "G", "a",
      "t", "e", "w", "a", "y", " ", "G", "e", "n", "m", "a", "s", "k", " ",
      "F", "l", "a", "g", "s", " ", "M", "S", "S", " ", "W", "i", "n", "d",
      "o", "w", " ", "i", "r", "t", "t", " ", "I", "f", "a", "c", "e">>

\* the empty line
EmptyLine ==
    <<>>

RouteLines ==
    { LinuxDefaultLine,
      WindowsDefaultLine,
      WindowsOnLinkLine,
      ZeroFourLine,
      ZeroThreeLine,
      DefaultThreeLine,
      DefaultFourLine,
      DarwinDefaultLine,
      NetTabLine,
      NetFourLine,
      LoopbackLine,
      ThreeGroupLine,
      HeaderLine,
      EmptyLine }

\* the texts handed to the parsers: up to n of the lines above, each ended
\* by a newline as the commands print them
RECURSIVE TextsUpTo(_)
TextsUpTo(n) ==
    IF n = 0 THEN { <<>> }
    ELSE LET shorter == TextsUpTo(n - 1) IN
         shorter \cup { t \o l \o <<"\n">> : t \in shorter, l \in RouteLines }

RouteTexts == TextsUpTo(MaxLines)

----------------------------------------------------------------------------
(* Route-table parsers: _parse_windows_route and _parse_unix_route. *)

ZeroDest == <<"0", ".", "0", ".", "0", ".", "0">>

DefaultWord == <<"d", "e", "f", "a", "u", "l", "t">>

\* parts[i] of Python, i counted from 0
Item(parts, i) == parts[i + 1]

\* parts[i] does not raise IndexError
HasIndex(parts, i) == i < Len(parts)

\* parts[i] if len(parts) > i else ""
ItemOrEmpty(parts, i) == IF Len(parts) > i THEN Item(parts, i) ELSE <<>>

RECURSIVE DropDigits(_)
DropDigits(s) ==
    IF s # <<>> /\ IsDigit(Head(s)) THEN DropDigits(Tail(s)) ELSE s

\* what is left of s after \d+ followed by '.', or "nomatch"
AfterGroupDot(s) ==
    LET r == DropDigits(s) IN
    IF s # <<>> /\ Len(r) < Len(s) /\ r # <<>> /\ Head(r) = "."
    THEN [ok |-> TRUE, rest |-> Tail(r)]
    ELSE [ok |-> FALSE, rest |-> <<>>]

\* re.match(r'^\d+\.\d+\.\d+\.\d+', line)
MatchDotted(line) ==
    LET a == AfterGroupDot(line)
        b == AfterGroupDot(a.rest)
        c == AfterGroupDot(b.rest)
    IN  /\ a.ok
        /\ b.ok
        /\ c.ok
        /\ c.rest # <<>>
        /\ IsDigit(Head(c.rest))

Skip == [kind |-> "skip", route |-> EmptyMap]

Raise == [kind |-> "raise", route |-> EmptyMap]

Route(r) == [kind |-> "route", route |-> r]

\* `if len(parts) >= 5` (line 134)
EnoughWindowsFields(parts) == Len(parts) >= 5

\* faulty variant of EnoughDefaultFields: three fields are accepted
DefaultThreeFieldsEnough(parts) == Len(parts) >= 3

\* `if len(parts) >= 4` (line 152)
EnoughDefaultFields(parts) == Len(parts) >= 4

\* `if len(parts) >= 5` (line 162)
EnoughNetFields(parts) == Len(parts) >= 5

\* the dictionary of lines 135-141
WindowsRoute(parts) ==
    IF \A i \in 0..3 : HasIndex(parts, i)
    THEN Route([k \in {"Destination", "Netmask", "Gateway", "Interface", "Metric"} |->
            CASE k = "Destination" -> Item(parts, 0)
              [] k = "Netmask"     -> Item(parts, 1)
              [] k = "Gateway"     -> Item(parts, 2)
              [] k = "Interface"   -> Item(parts, 3)
              [] k = "Metric"      -> ItemOrEmpty(parts, 4)])
    ELSE Raise

\* the dictionary of lines 153-159
UnixDefaultRoute(parts) ==
    IF \A i \in 0..1 : HasIndex(parts, i)
    THEN Route([k \in {"Destination", "Gateway", "Genmask", "Flags", "Interface"} |->
            CASE k = "Destination" -> IF Item(parts, 0) = DefaultWord
                                      THEN DefaultWord
                                      ELSE Item(parts, 0)
              [] k = "Gateway"     -> Item(parts, 1)
              [] k = "Genmask"     -> ItemOrEmpty(parts, 2)
              [] k = "Flags"       -> ItemOrEmpty(parts, 3)
              [] k = "Interface"   -> ItemOrEmpty(parts, 5)])
    ELSE Raise

\* the dictionary of lines 163-169
UnixNetRoute(parts) ==
    IF \A i \in 0..3 : HasIndex(parts, i)
    THEN Route([k \in {"Destination", "Gateway", "Genmask", "Flags", "Interface"} |->
            CASE k = "Destination" -> Item(parts, 0)
              [] k = "Gateway"     -> Item(parts, 1)
              [] k = "Genmask"     -> Item(parts, 2)
              [] k = "Flags"       -> Item(parts, 3)
              [] k = "Interface"   -> ItemOrEmpty(parts, 5)])
    ELSE Raise

\* body of the loop of _parse_windows_route (lines 131-141)
WindowsLine(raw) ==
    LET line  == Strip(raw)
        parts == ReSplit(line)
    IN  IF StartsWith(line, ZeroDest) /\ EnoughWindowsFields(parts)
        THEN WindowsRoute(parts)
        ELSE Skip

\* body of the loop of _parse_unix_route (lines 149-169)
UnixLine(raw) ==
    LET line  == Strip(raw)
        parts == ReSplit(line)
    IN  IF StartsWith(line, DefaultWord) \/ StartsWith(line, ZeroDest)
        THEN IF EnoughDefaultFields(parts) THEN UnixDefaultRoute(parts) ELSE Skip
        ELSE IF MatchDotted(line)
        THEN IF EnoughNetFields(parts) THEN UnixNetRoute(parts) ELSE Skip
        ELSE Skip

\* the loop over output.split('\n'), routes.append, return routes
RECURSIVE ParseFrom(_, _, _)
ParseFrom(style, lines, routes) ==
    IF lines = <<>> THEN [raised |-> FALSE, routes |-> routes]
    ELSE LET r == IF style = 1 THEN WindowsLine(Head(lines))
                  ELSE UnixLine(Head(lines))
         IN  IF r.kind = "raise" THEN [raised |-> TRUE, routes |-> <<>>]
             ELSE ParseFrom(style, Tail(lines),
                            IF r.kind = "route" THEN Append(routes, r.route)
                            ELSE routes)

\* _parse_windows_route(output)
ParseWindowsRoute(output) == ParseFrom(1, Split(output, "\n"), <<>>)

\* _parse_unix_route(output)
ParseUnixRoute(output) == ParseFrom(2, Split(output, "\n"), <<>>)

\* a call of _parse_windows_route
ParseWindowsCall(text) ==
    /\ parse_style = 0
    /\ parse_style' = 1
    /\ parse_in' = text
    /\ LET res == ParseWindowsRoute(text) IN
          /\ parse_out' = res.routes
          /\ parse_raised' = res.raised
    /\ UNCHANGED <<scanVars, speedVars, ipVars, collectVars>>

\* a call of _parse_unix_route
ParseUnixCall(text) ==
    /\ parse_style = 0
    /\ parse_style' = 2
    /\ parse_in' = text
    /\ LET res == ParseUnixRoute(text) IN
          /\ parse_out' = res.routes
          /\ parse_raised' = res.raised
    /\ UNCHANGED <<scanVars, speedVars, ipVars, collectVars>>
----------------------------------------------------------------------------
(* _get_external_ip: inputs. *)

ErrorPrefix ==
    <<"E", "r", "r", "o", "r", ":", " ">>

\* texts an endpoint answers with
IpResponses ==
    { <<"2", "0", "3", ".", "0", ".", "1", "1", "3", ".", "7">>,
      <<"1", "9", "8", ".", "5", "1", ".", "1", "0", "0", ".", "2", "3">>,
      <<"2", "0", "0", "1", ":", "d", "b", "8", ":", ":", "1">>,
      <<>> }

\* errors requests.get raises, each with the text str(e) gives
IpErrors ==
    { [kind |-> "Exception", msg |-> <<"t", "i", "m", "e", "d", " ", "o", "u", "t">>],
      [kind |-> "Exception", msg |-> <<"r", "e", "f", "u", "s", "e", "d">>],
      [kind |-> "Exception", msg |-> <<"n", "o", " ", "r", "o", "u", "t", "e">>],
      [kind |-> "Exception", msg |-> <<"b", "a", "d", " ", "c", "e", "r", "t">>] }

\* entries of the call's log
Requested(ep) == [ep |-> ep, what |-> "request", text |-> <<>>]

Answered(ep, r) == [ep |-> ep, what |-> "ok", text |-> r]

Failed(ep, e) == [ep |-> ep, what |-> "fail", text |-> e.msg]

----------------------------------------------------------------------------
(* _get_external_ip: the two requests. *)

\* faulty variant of AfterEndpoint1: the second request is always made
AlwaysSecondEndpoint(ok) == "ep2"

\* where the try of lines 214-216 leaves the call: the handler, with the
\* second request, runs only when the first one raised
AfterEndpoint1(ok) == IF ok THEN "done" ELSE "ep2"

\* `except Exception as e` (line 219)
CaughtBySecondHandler(e) == e.kind = "Exception"

\* f"Error: {str(e)}" (line 220)
ErrorText(e) == ErrorPrefix \o e.msg

\* line 215: the GET to api.ipify.org is issued
RequestEndpoint1 ==
    /\ ip_pc \in {"idle", "done"}
    /\ ip_pc' = "req1"
    /\ ip_log' = <<Requested(1)>>
    /\ ip_escaped' = FALSE
    /\ UNCHANGED external_ip
    /\ UNCHANGED <<scanVars, speedVars, parseVars, collectVars>>

\* line 215: the first endpoint answers, .text is stored
Endpoint1Answers ==
    /\ ip_pc = "req1"
    /\ \E r \in IpResponses :
          /\ external_ip' = r
          /\ ip_log' = Append(ip_log, Answered(1, r))
    /\ ip_pc' = AfterEndpoint1(TRUE)
    /\ UNCHANGED ip_escaped
    /\ UNCHANGED <<scanVars, speedVars, parseVars, collectVars>>

\* lines 215-216: the first request raises, the bare except takes it
Endpoint1Fails ==
    /\ ip_pc = "req1"
    /\ \E e \in IpErrors : ip_log' = Append(ip_log, Failed(1, e))
    /\ ip_pc' = AfterEndpoint1(FALSE)
    /\ UNCHANGED <<ip_escaped, external_ip>>
    /\ UNCHANGED <<scanVars, speedVars, parseVars, collectVars>>

\* line 218: the GET to ident.me is issued
RequestEndpoint2 ==
    /\ ip_pc = "ep2"
    /\ ip_pc' = "req2"
    /\ ip_log' = Append(ip_log, Requested(2))
    /\ UNCHANGED <<ip_escaped, external_ip>>
    /\ UNCHANGED <<scanVars, speedVars, parseVars, collectVars>>

\* line 218: the second endpoint answers, .text is stored
Endpoint2Answers ==
    /\ ip_pc = "req2"
    /\ \E r \in IpResponses :
          /\ external_ip' = r
          /\ ip_log' = Append(ip_log, Answered(2, r))
    /\ ip_pc' = "done"
    /\ UNCHANGED ip_escaped
    /\ UNCHANGED <<scanVars, speedVars, parseVars, collectVars>>

\* lines 218-220: the second request raises
Endpoint2Fails ==
    /\ ip_pc = "req2"
    /\ \E e \in IpErrors :
          /\ ip_log' = Append(ip_log, Failed(2, e))
          /\ IF CaughtBySecondHandler(e)
             THEN /\ external_ip' = ErrorText(e)
                  /\ ip_escaped' = FALSE
             ELSE /\ external_ip' = external_ip
                  /\ ip_escaped' = TRUE
    /\ ip_pc' = "done"
    /\ UNCHANGED <<scanVars, speedVars, parseVars, collectVars>>
----------------------------------------------------------------------------
(* collect_all_info: the list of items and the loop over it. *)

\* the list `tasks` of lines 69-79, by name
Tasks ==
    << "System Info", "Routing Table", "Interfaces", "ARP Table", "DNS Info",
       "Gateways", "External IP", "WiFi Info", "Active Connections" >>

\* errors an item raises, each with the text str(e) gives
CollectErrors ==
    { [kind |-> "Exception", msg |-> <<"n", "o", " ", "d", "a", "t", "a">>],
      [kind |-> "Exception", msg |-> <<"d", "e", "n", "i", "e", "d">>] }

\* `except Exception as e` (line 87)
CaughtByCollector(e) == e.kind = "Exception"

\* faulty variant of AfterItem: an item that raised ends the loop
AbortOnError(i, raised) == IF raised THEN Len(Tasks) + 1 ELSE i + 1

\* the for-loop moves to the next item whether the item returned or the
\* handler of lines 87-88 ran
AfterItem(i, raised) == i + 1

\* the line printed at 86
OkLine(name) == [name |-> name, mark |-> "ok", text |-> <<>>]

\* the line printed at 88
FailLine(name, e) == [name |-> name, mark |-> "fail", text |-> ErrorPrefix \o e.msg]

\* collect_all_info is called: lines 67-79
CollectCall ==
    /\ ca_pc \in {"idle", "done"}
    /\ ca_pc' = "loop"
    /\ ca_idx' = 1
    /\ ca_calls' = <<>>
    /\ ca_log' = <<>>
    /\ ca_escaped' = FALSE
    /\ UNCHANGED <<scanVars, speedVars, parseVars, ipVars>>

\* lines 82-86: the item is invoked and returns
ItemReturns ==
    /\ ca_pc = "loop"
    /\ ca_idx <= Len(Tasks)
    /\ ca_calls' = Append(ca_calls, [name |-> Tasks[ca_idx], raised |-> FALSE])
    /\ ca_log' = Append(ca_log, OkLine(Tasks[ca_idx]))
    /\ ca_idx' = AfterItem(ca_idx, FALSE)
    /\ UNCHANGED <<ca_pc, ca_escaped>>
    /\ UNCHANGED <<scanVars, speedVars, parseVars, ipVars>>

\* lines 82-84, 87-88: the item is invoked and raises
ItemRaises ==
    /\ ca_pc = "loop"
    /\ ca_idx <= Len(Tasks)
    /\ ca_calls' = Append(ca_calls, [name |-> Tasks[ca_idx], raised |-> TRUE])
    /\ \E e \in CollectErrors :
          IF CaughtByCollector(e)
          THEN /\ ca_log' = Append(ca_log, FailLine(Tasks[ca_idx], e))
               /\ ca_idx' = AfterItem(ca_idx, TRUE)
               /\ UNCHANGED <<ca_pc, ca_escaped>>
          ELSE /\ ca_pc' = "done"
               /\ ca_escaped' = TRUE
               /\ UNCHANGED <<ca_idx, ca_log>>
    /\ UNCHANGED <<scanVars, speedVars, parseVars, ipVars>>

\* the list is exhausted: collect_all_info returns
CollectReturn ==
    /\ ca_pc = "loop"
    /\ ca_idx > Len(Tasks)
    /\ ca_pc' = "done"
    /\ UNCHANGED <<ca_idx, ca_calls, ca_log, ca_escaped>>
    /\ UNCHANGED <<scanVars, speedVars, parseVars, ipVars>>
----------------------------------------------------------------------------
(* Initial state: the object after __init__ (lines 50-63), no call made. *)

Init ==
    /\ scan_pc = "idle"
    /\ ports = None
    /\ start_port = None
    /\ end_port = None
    /\ next_port = None
    /\ threads = <<>>
    /\ join_idx = 0
    /\ tstate = EmptyMap
    /\ tresult = EmptyMap
    /\ open_ports = <<>>
    /\ scan_ret = NoReturn
    /\ st_pc = "idle"
    /\ dl_thr = "idle"
    /\ ul_thr = "idle"
    /\ st_results = FreshResults
    /\ st_raised = {}
    /\ st_escaped = FALSE
    /\ speed_test_results = EmptyMap
    /\ parse_style = 0
    /\ parse_in = <<>>
    /\ parse_out = <<>>
    /\ parse_raised = FALSE
    /\ ip_pc = "idle"
    /\ ip_log = <<>>
    /\ ip_escaped = FALSE
    /\ external_ip = None
    /\ ca_pc = "idle"
    /\ ca_idx = 0
    /\ ca_calls = <<>>
    /\ ca_log = <<>>
    /\ ca_escaped = FALSE

\* port_scan and its scan_port threads
NextScan ==
    \/ \E p \in PortsArgs : ScanCall(p)
    \/ LaunchThread
    \/ LaunchDone
    \/ \E p \in 1..MaxPort : Connect(p)
    \/ \E p \in 1..MaxPort : AppendPort(p)
    \/ JoinThread
    \/ ScanReturn

SpecScan == Init /\ [][NextScan]_vars

\* run_speed_test and its download and upload threads
NextSpeed ==
    \/ SpeedNegotiateOk
    \/ SpeedNegotiateRaises
    \/ StartDownload
    \/ StartUpload
    \/ DownloadOk
    \/ DownloadRaises
    \/ UploadOk
    \/ UploadRaises
    \/ JoinDownload
    \/ JoinUpload
    \/ StoreResults

SpecSpeed == Init /\ [][NextSpeed]_vars

\* the route-table parsers, applied to one text
NextParse ==
    \/ \E text \in RouteTexts : ParseWindowsCall(text)
    \/ \E text \in RouteTexts : ParseUnixCall(text)

SpecParse == Init /\ [][NextParse]_vars

\* _get_external_ip and the two endpoints
NextExternalIp ==
    \/ RequestEndpoint1
    \/ Endpoint1Answers
    \/ Endpoint1Fails
    \/ RequestEndpoint2
    \/ Endpoint2Answers
    \/ Endpoint2Fails

SpecExternalIp == Init /\ [][NextExternalIp]_vars

\* collect_all_info and the items it invokes
NextCollect ==
    \/ CollectCall
    \/ ItemReturns
    \/ ItemRaises
    \/ CollectReturn

SpecCollect == Init /\ [][NextCollect]_vars
----------------------------------------------------------------------------
(* Properties of port_scan. *)

\* the text 'start-end'
RangeText(s, e) == IntToText(s) \o <<"-">> \o IntToText(e)

\* ports whose connect attempt returned 0
Connected == { p \in DOMAIN tresult : ~tresult[p].raised /\ tresult[p].code = 0 }

\* scan_port threads launched and not yet terminated
InFlight == { p \in DOMAIN tstate : tstate[p] # "done" }

Elements(lst) == { lst[i] : i \in 1..Len(lst) }

C4_Ascending ==
    (scan_pc = "returned" /\ scan_ret.type = "list") =>
        \A i \in 1..Len(scan_ret.val), j \in 1..Len(scan_ret.val) :
            i < j => scan_ret.val[i] < scan_ret.val[j]

\* C5: for a range string that is not two integers, port_scan has returned
\* a text starting with 'Scan error: ' followed by the error's message, and
\* no scan_port thread was launched.
C5_MalformedIsError ==
    (scan_pc # "idle" /\ ports \in MalformedArgs) =>
        /\ scan_pc = "returned"
        /\ scan_ret.type = "str"
        /\ StartsWith(scan_ret.val, ScanErrorPrefix)
        /\ Len(scan_ret.val) > Len(ScanErrorPrefix)
        /\ threads = <<>>
        /\ DOMAIN tstate = {}
        /\ open_ports = <<>>

\* C5 witness: port_scan was called with 'abc-10' and returned the text.
C5_Witness ==
    /\ scan_pc = "returned"
    /\ ports = <<"a", "b", "c", "-", "1", "0">>
    /\ scan_ret.type = "str"
    /\ scan_ret.val = ScanErrorPrefix \o InvalidLiteralPrefix
                        \o <<"'", "a", "b", "c", "'">>

\* a pool width smaller than the largest range scanned: port_scan takes no
\* width, so whichever width is meant, a larger range is to stay within it
PoolWidth == MaxPort - 1

\* C6 (as claimed): the scan_port attempts in flight at any moment never
\* exceed the pool width, however many ports the range holds.
C6_InFlightBounded ==
    Cardinality(InFlight) <= PoolWidth
----------------------------------------------------------------------------
(* Properties of run_speed_test. *)

SuccessKeys == {"Download", "Upload", "Ping", "Server"}

\* the success variant: the four figures, each populated, and no Error
IsSuccessRecord(d) ==
    /\ DOMAIN d = SuccessKeys
    /\ \A k \in SuccessKeys : d[k] # <<>>

\* the failure variant: an Error entry with a non-empty message, no figure
IsFailureRecord(d) ==
    /\ DOMAIN d = {"Error"}
    /\ d["Error"] # <<>>

\* C1 (as claimed): once run_speed_test has returned, if negotiation, the
\* download or the upload raised, the stored report is the failure variant
\* and holds none of Download, Upload, Ping, Server.
C1_AnyErrorIsFailure ==
    (st_pc = "done" /\ st_raised # {}) =>
        /\ DOMAIN speed_test_results = {"Error"}
        /\ SuccessKeys \cap DOMAIN speed_test_results = {}

----------------------------------------------------------------------------
(* Properties of the route-table parsers. *)

\* the whitespace-separated fields of a line, blanks around it dropped
Fields(raw) == ReSplit(Strip(raw))

\* a line the parser of the given structure recognises, as the layouts say:
\* style 1, starts with '0.0.0.0' and has at least 5 fields; style 2,
\* starts with 'default' or '0.0.0.0' and has at least 4 fields, or starts
\* with a dotted-decimal address and has at least 5 fields
Recognized(style, raw) ==
    LET line == Strip(raw)
        n    == Len(Fields(raw))
    IN  IF style = 1
        THEN StartsWith(line, ZeroDest) /\ n >= 5
        ELSE \/ (StartsWith(line, DefaultWord) \/ StartsWith(line, ZeroDest)) /\ n >= 4
             \/ MatchDotted(line) /\ n >= 5

\* the recognised lines of the parsed text, in input order
RecognizedLines ==
    LET lines == Split(parse_in, "\n")
        keep  == { i \in 1..Len(lines) : Recognized(parse_style, lines[i]) }
    IN  [k \in 1..Cardinality(keep) |-> lines[Nth(keep, k)]]

\* the text of the Linux netstat default line, newline included
LinuxDefaultText == LinuxDefaultLine \o <<"\n">>

\* C8 (as claimed): under layout style 2 the Linux default line of eight
\* fields yields one record with destination 'default', gateway
\* '192.168.1.1', netmask '0.0.0.0', flags 'UG' and interface 'eth0'.
C8_LinuxDefaultRecord ==
    (parse_style = 2 /\ parse_in = LinuxDefaultText) =>
        /\ Len(parse_out) = 1
        /\ parse_out[1]["Destination"] = DefaultWord
        /\ parse_out[1]["Gateway"] =
              <<"1", "9", "2", ".", "1", "6", "8", ".", "1", ".", "1">>
        /\ parse_out[1]["Genmask"] = ZeroDest
        /\ parse_out[1]["Flags"] = <<"U", "G">>
        /\ parse_out[1]["Interface"] = <<"e", "t", "h", "0">>

\* C9: for every text and both layouts the parser returns without raising
\* one record per recognised line and none for any other line, in input
\* order, every record holding Destination and Gateway (the line's first
\* field, and its third field in style 1, its second in style 2); a text
\* with no recognised line gives the empty sequence.
C9_OneRecordPerRecognizedLine ==
    parse_style # 0 =>
        LET seen == RecognizedLines IN
        /\ ~parse_raised
        /\ Len(parse_out) = Len(seen)
        /\ \A i \in 1..Len(parse_out) :
              LET f == Fields(seen[i]) IN
              /\ {"Destination", "Gateway"} \subseteq DOMAIN parse_out[i]
              /\ parse_out[i]["Destination"] = f[1]
              /\ parse_out[i]["Gateway"] = f[IF parse_style = 1 THEN 3 ELSE 2]

\* C9 witness: a two-line text was parsed under style 2, its first line
\* skipped and its second recognised, giving one record.
C9_Witness ==
    /\ parse_style = 2
    /\ parse_in = DefaultThreeLine \o <<"\n">> \o LoopbackLine \o <<"\n">>
    /\ ~parse_raised
    /\ Len(parse_out) = 1
    /\ parse_out[1]["Destination"] = <<"1", "2", "7", ".", "0", ".", "0", ".", "1">>
----------------------------------------------------------------------------
(* Properties of _get_external_ip. *)

\* the endpoints requested so far in this call, in order
RequestOrder ==
    LET at == { i \in 1..Len(ip_log) : ip_log[i].what = "request" } IN
    [k \in 1..Cardinality(at) |-> ip_log[Nth(at, k)].ep]

\* what endpoint ep did in this call: "ok", "fail", or "none"
Outcome(ep) ==
    IF \E i \in 1..Len(ip_log) : ip_log[i].ep = ep /\ ip_log[i].what = "ok"
    THEN "ok"
    ELSE IF \E i \in 1..Len(ip_log) : ip_log[i].ep = ep /\ ip_log[i].what = "fail"
    THEN "fail"
    ELSE "none"

\* the text endpoint ep answered with
Response(ep) ==
    ip_log[CHOOSE i \in 1..Len(ip_log) :
              ip_log[i].ep = ep /\ ip_log[i].what = "ok"].text

\* C10: endpoint 1 is requested first and endpoint 2 only after endpoint 1
\* failed; once the call has returned, the result is endpoint 1's answer if
\* it answered, else endpoint 2's answer if it answered, else a text
\* beginning with 'Error:'; no exception leaves the call.
C10_FallbackOrder ==
    /\ RequestOrder \in { <<>>, <<1>>, <<1, 2>> }
    /\ \A i \in 1..Len(ip_log) :
          (ip_log[i].ep = 2 /\ ip_log[i].what = "request") =>
              \E j \in 1..(i - 1) : ip_log[j].ep = 1 /\ ip_log[j].what = "fail"
    /\ ip_pc = "done" =>
          /\ ~ip_escaped
          /\ Outcome(1) # "none"
          /\ Outcome(1) = "ok" =>
                (external_ip = Response(1) /\ Outcome(2) = "none" /\ RequestOrder = <<1>>)
          /\ (Outcome(1) = "fail" /\ Outcome(2) = "ok") => external_ip = Response(2)
          /\ (Outcome(1) = "fail" /\ Outcome(2) # "ok") =>
                (Outcome(2) = "fail" /\
                 StartsWith(external_ip, <<"E", "r", "r", "o", "r", ":">>))

\* C10 witness: both endpoints were requested in order, both failed, and
\* the call returned the text 'Error: timed out'.
C10_Witness ==
    /\ ip_pc = "done"
    /\ RequestOrder = <<1, 2>>
    /\ Outcome(1) = "fail"
    /\ Outcome(2) = "fail"
    /\ external_ip = <<"E", "r", "r", "o", "r", ":", " ",
                       "t", "i", "m", "e", "d", " ", "o", "u", "t">>
----------------------------------------------------------------------------
(* Properties of collect_all_info. *)

\* C11: collect_all_info invokes the items in the order of its list, none
\* twice; once it has returned, every item was invoked exactly once, each
\* item that raised is recorded as that item's failure and each other as
\* its success, and no exception has left the call.
C11_EveryItemOnceInOrder ==
    /\ Len(ca_calls) <= Len(Tasks)
    /\ \A i \in 1..Len(ca_calls) : ca_calls[i].name = Tasks[i]
    /\ ~ca_escaped
    /\ ca_pc = "done" =>
          /\ Len(ca_calls) = Len(Tasks)
          /\ Len(ca_log) = Len(Tasks)
          /\ \A i \in 1..Len(Tasks) :
                /\ ca_log[i].name = Tasks[i]
                /\ (ca_log[i].mark = "fail") = ca_calls[i].raised
                /\ (ca_log[i].mark = "ok") = ~ca_calls[i].raised

\* C11 witness: the call has returned after the third item (Interfaces)
\* raised; the six items after it were invoked and at least one returned.
C11_Witness ==
    /\ ca_pc = "done"
    /\ Len(ca_calls) = Len(Tasks)
    /\ ca_calls[3].raised
    /\ ca_log[3] = [name |-> "Interfaces", mark |-> "fail",
                    text |-> ErrorPrefix \o <<"d", "e", "n", "i", "e", "d">>]
    /\ \E i \in 4..Len(Tasks) : ~ca_calls[i].raised
    /\ ca_log[Len(Tasks)].name = "Active Connections"

====
